---- MODULE Spec2Model ----
(***************************************************************************)
(* SHIELDS-PTM post-processing: the map-file parser, the flux mapper with  *)
(* its access and field-of-view masks, the pitch-angle integrator, the     *)
(* distribution dispatch and the cutoff analysis.                          *)
(*                                                                         *)
(* Units of the model.  Energies are integers in keV; positions are        *)
(* integers in 0.01 Re (so 14.99 Re is 1499); pitch angles are integer     *)
(* degrees; rigidities are integers in MV.  A fraction such as the access  *)
(* fraction is kept as numerator and denominator.  Python indices are      *)
(* 0-based and a negative index counts from the end (PyIndex).             *)
(***************************************************************************)
EXTENDS Integers, Sequences, FiniteSets, TLC

VARIABLES
    fnames,     \* the map files handed to parse_map_file (a sequence of files)
    fluxmap,    \* the caller's flux map (the dictionary parse_map_file returns)
    call,       \* the last calculate_omni call: its arguments, locals and result
    cdict,      \* the result of the last cutoffs call
    ret,        \* the outcome of the last ptm_tools or process_run call
    pp,         \* the ptm_postprocessor objects (scripts/ptm_postprocessing.py)
    hist,       \* per object: the mass arguments it was given, in order, and
                \* the rest energy its last calculate_flux used
    disk,       \* the run directory: rungrid.txt, the map files, the boundary file
    fluxdata    \* the fluxdata dictionary of the last process_ram_boundary

vars == <<fnames, fluxmap, call, cdict, ret, pp, hist, disk, fluxdata>>
post == <<pp, hist, disk, fluxdata>>

\* No ptm_postprocessor has been constructed and no run directory is in use
Instances == {"a", "b"}
NoObject == [status |-> "none"]
NoHist == [masses |-> << >>, used |-> [status |-> "none"]]
NoDisk == [status |-> "none"]
NoFluxdata == [status |-> "none"]
PostIdle ==
    /\ pp = [i \in Instances |-> NoObject]
    /\ hist = [i \in Instances |-> NoHist]
    /\ disk = NoDisk
    /\ fluxdata = NoFluxdata

(***************************************************************************)
(* Bounds of the model and constants of the program                        *)
(***************************************************************************)
MaxCutCells == 6        \* cutoffs: largest energy x pitch grid (number of cells)
MaxCells == 3           \* calculate_omni: largest energy x pitch grid
MaxRows == 4            \* parse_map_file: data lines over all files
MaxFiles == 2           \* parse_map_file: number of files
MaxDim == 2             \* calculate_omnidirectional_flux: largest axis length

AccessRadius == 1499    \* 14.99 Re, in 0.01 Re
FullAccessPct == 82     \* allow > 0.82
KeVPerMeV == 1000       \* en_mev = energies/1e3
ProtonMc2 == 938        \* proton rest energy, MeV

(***************************************************************************)
(* Helpers: sequences, Python indexing, integer square root                *)
(***************************************************************************)
Min(S) == CHOOSE x \in S : \A y \in S : x <= y
Max(S) == CHOOSE x \in S : \A y \in S : x >= y

RECURSIVE SortedSeq(_)
SortedSeq(S) ==
    IF S = {} THEN << >> ELSE LET m == Min(S) IN <<m>> \o SortedSeq(S \ {m})

RECURSIVE SumSeq(_)
SumSeq(s) == IF s = << >> THEN 0 ELSE Head(s) + SumSeq(Tail(s))

\* seq[i] of Python: 0-based, negative i counts from the end; "IndexError" when
\* i is out of range.
PyInRange(s, i) == -Len(s) <= i /\ i < Len(s)
PyIndex(s, i) == IF i < 0 THEN s[Len(s) + i + 1] ELSE s[i + 1]

RECURSIVE ISqrtBetween(_, _, _)
ISqrtBetween(n, lo, hi) ==
    IF lo >= hi THEN lo
    ELSE LET mid == (lo + hi + 1) \div 2
         IN  IF mid * mid <= n THEN ISqrtBetween(n, mid, hi)
             ELSE ISqrtBetween(n, lo, mid - 1)
ISqrt(n) == ISqrtBetween(n, 0, 46340)                \* floor(sqrt(n))
CeilSqrt(n) == LET r == ISqrt(n) IN IF r * r = n THEN r ELSE r + 1

(***************************************************************************)
(* ptt.Proton: energy (MeV) <-> rigidity (MV).  R = sqrt(E (E + 2 mc2)),   *)
(* rounded up to the next MV; the inverse E = sqrt(R^2 + mc2^2) - mc2,     *)
(* rounded down, is then the exact inverse on whole MeV.  fromRigidity     *)
(* takes a fraction num/den.                                               *)
(***************************************************************************)
getRigidity(e) == CeilSqrt(e * (e + 2 * ProtonMc2))
fromRigidity(num, den) ==
    (ISqrt(num * num + (ProtonMc2 * den) * (ProtonMc2 * den)) \div den) - ProtonMc2

(***************************************************************************)
(* cutoffs (omni_quicklook_sep.py)                                         *)
(***************************************************************************)
Norm2(x) == x[1] * x[1] + x[2] * x[2] + x[3] * x[3]
\* np.linalg.norm(x) >= 14.99
HasAccess(x) == Norm2(x) >= AccessRadius * AccessRadius

\* allow, before the division by len(angles): per energy, the number of pitch
\* bins with access.  allow[n] = allowCount[n] / len(angles).
allowCount(fm) ==
    [n \in 1..Len(fm.energies) |->
        Cardinality({j \in 1..Len(fm.final_x[n]) : HasAccess(fm.final_x[n][j])})]

en_mev(fm) == [n \in 1..Len(fm.energies) |-> fm.energies[n] \div KeVPerMeV]

\* variants of not_forbidden: the indices of every energy; the indices of the
\* energies with full access
not_forbidden_all(fm) == [n \in 1..Len(fm.energies) |-> n - 1]
not_forbidden_full(fm) ==
    SortedSeq({n - 1 : n \in {m \in 1..Len(fm.energies) :
                    allowCount(fm)[m] * 100 > FullAccessPct * Len(fm.angles)}})

\* np.nonzero(allow)[0]: the 0-based indices of the energies with allow /= 0
not_forbidden(fm) ==
    SortedSeq({n - 1 : n \in {m \in 1..Len(fm.energies) : allowCount(fm)[m] # 0}})

\* allow > 0.82
full_access(fm) ==
    [n \in 1..Len(fm.energies) |->
        allowCount(fm)[n] * 100 > FullAccessPct * Len(fm.angles)]

\* find_runs called with value=False: the blocks of FALSE
find_runs_false(invec) ==
    LET isvalue == <<0>> \o [k \in 1..Len(invec) |-> IF invec[k] THEN 0 ELSE 1] \o <<0>>
        absdiff == [k \in 1..(Len(isvalue) - 1) |->
                        IF isvalue[k + 1] >= isvalue[k]
                        THEN isvalue[k + 1] - isvalue[k]
                        ELSE isvalue[k] - isvalue[k + 1]]
        where1  == SortedSeq({k - 1 : k \in {m \in 1..Len(absdiff) : absdiff[m] = 1}})
    IN  [r \in 1..(Len(where1) \div 2) |-> <<where1[2 * r - 1], where1[2 * r]>>]

\* find_runs(invec): the (start, end) pairs, 0-based, of the contiguous blocks
\* of TRUE, in ascending order; end is one past the block.
find_runs(invec) ==
    LET isvalue == <<0>> \o [k \in 1..Len(invec) |-> IF invec[k] THEN 1 ELSE 0] \o <<0>>
        absdiff == [k \in 1..(Len(isvalue) - 1) |->
                        IF isvalue[k + 1] >= isvalue[k]
                        THEN isvalue[k + 1] - isvalue[k]
                        ELSE isvalue[k] - isvalue[k + 1]]
        where1  == SortedSeq({k - 1 : k \in {m \in 1..Len(absdiff) : absdiff[m] = 1}})
    IN  [r \in 1..(Len(where1) \div 2) |-> <<where1[2 * r - 1], where1[2 * r]>>]

\* try: idx_high = find_runs(full_access)[-1][0]  except IndexError: idx_high = -1
idx_high_first(fa) ==
    LET ranges == find_runs(fa)
    IN  IF PyInRange(ranges, 0) THEN PyIndex(ranges, 0)[1] ELSE -1
idx_high_nofallback(fa) ==
    LET ranges == find_runs(fa)
    IN  IF PyInRange(ranges, -1) THEN PyIndex(ranges, -1)[1] ELSE 0
\* variant: the last index of the last run, [-1][1] - 1
idx_high_run_end(fa) ==
    LET ranges == find_runs(fa)
    IN  IF PyInRange(ranges, -1) THEN PyIndex(ranges, -1)[2] - 1 ELSE -1
idx_high(fa) ==
    LET ranges == find_runs(fa)
    IN  IF PyInRange(ranges, -1) THEN PyIndex(ranges, -1)[1] ELSE -1

NoCutoffs == [status |-> "none"]

\* The whole of cutoffs(fluxmap): the returned cdict, or the IndexError of
\* not_forbidden[0] when no energy has access.
cutoffs(fm) ==
    LET nf == not_forbidden(fm)
    IN  IF ~PyInRange(nf, 0) THEN [status |-> "IndexError"]
        ELSE
        LET idx_low == PyIndex(nf, 0)
            ec_low  == PyIndex(en_mev(fm), idx_low)
            ec_high == PyIndex(en_mev(fm), idx_high(full_access(fm)))
            Nforbid == SumSeq(allowCount(fm))
            Ntot    == Len(fm.energies) * Len(fm.angles)
            r_low   == getRigidity(ec_low)
            r_high  == getRigidity(ec_high)
            r_num   == r_low * Ntot + (r_high - r_low) * Nforbid
        IN  [status |-> "ok",
             ec_low |-> ec_low, r_low |-> r_low,
             ec_high |-> ec_high, r_high |-> r_high,
             r_eff |-> [num |-> r_num, den |-> Ntot],
             ec_eff |-> fromRigidity(r_num, Ntot)]

(***************************************************************************)
(* Flux maps.  A flux map is the dictionary parse_map_file returns:        *)
(* energies, angles, the four grids and attrs['position'].                 *)
(***************************************************************************)
NoMap == [status |-> "none"]
NoCall == [status |-> "none"]
NoRet == [status |-> "none"]

Shapes(maxcells) ==
    {s \in (1..maxcells) \X (1..maxcells) : s[1] * s[2] <= maxcells}
EnergyAxis(ne) == [i \in 1..ne |-> KeVPerMeV * i]
AngleAxis(na) == [j \in 1..na |-> 30 * (j - 1)]

\* Final positions (0.01 Re): on the 14.99 Re threshold, and just inside it.
XKinds == {<<1499, 0, 0>>, <<1498, 0, 0>>}

\* A parsed map of shape s whose cells differ in final_x only.
AccessMap(s, x) ==
    [energies |-> EnergyAxis(s[1]),
     angles   |-> AngleAxis(s[2]),
     init_E   |-> [i \in 1..s[1] |-> [j \in 1..s[2] |-> EnergyAxis(s[1])[i]]],
     final_E  |-> [i \in 1..s[1] |-> [j \in 1..s[2] |-> EnergyAxis(s[1])[i]]],
     final_x  |-> x,
     init_v   |-> [i \in 1..s[1] |-> [j \in 1..s[2] |-> <<1, 0, 0>>]],
     position |-> <<600, 0, 0>>]

(***************************************************************************)
(* ptm_postprocessor of ptm_python, as calculate_omni uses it.             *)
(* set_source(source_type='kaprel', density=5e-6, energy=752, kappa=5,     *)
(* mass=1847): kappa Wc = 5 * 752 * (1 - 1.5/5) = 2632 keV and             *)
(* mc2 = 511 * 1847 = 943817 keV.  Fluxes are fixed-point numbers in       *)
(* arbitrary units: f0 and the unit factors are one positive constant.     *)
(***************************************************************************)
KappaWc == 2632
KappaExp == 6
SourceMc2 == 943817
FluxScale == 100000

RECURSIVE PowFrac(_, _, _, _)
PowFrac(x, num, den, k) ==
    IF k = 0 THEN x ELSE PowFrac((x * num) \div den, num, den, k - 1)

\* f / f0 = (1 + ei/(kappa Wc))^-(kappa+1), scaled by FluxScale
kappa_f(ei) == PowFrac(FluxScale, KappaWc, KappaWc + ei, KappaExp)
\* (v/c)^2 = (gamf^2 - 1)/gamf^2 = ef (ef + 2 mc2)/(ef + mc2)^2, in 1e-5
beta2(ef) ==
    (((ef * 100000) \div (ef + SourceMc2))
        * (((ef + 2 * SourceMc2) * 1000) \div (ef + SourceMc2))) \div 1000
\* j = 1e5 c^2 v^2 / mc2 * f, up to the constant factor
differential_flux(ei, ef) == (kappa_f(ei) * beta2(ef)) \div 100

\* map_flux(fluxmap): the differential flux of every cell, from init_E and final_E
map_flux(fm) ==
    [i \in 1..Len(fm.energies) |->
        [j \in 1..Len(fm.angles) |->
            differential_flux(fm.init_E[i][j], fm.final_E[i][j])]]

\* sin of a multiple of 15 degrees, in 1/100
Sin100(deg) ==
    LET d == IF deg > 90 THEN 180 - deg ELSE deg
    IN  CASE d = 0 -> 0 [] d = 15 -> 26 [] d = 30 -> 50 [] d = 45 -> 71
          [] d = 60 -> 87 [] d = 75 -> 97 [] d = 90 -> 100

\* get_omni_flux(angles, flux): per energy, the sum over the pitch bins of
\* coef * sin(midpoint) * 0.5 (j_i + j_i+1), coef = 4 pi * bin width; the
\* constant 4 pi (pi/180) 0.5 is left out.
get_omni_flux(pav, flux) ==
    [i \in 1..Len(flux) |->
        SumSeq([k \in 1..(Len(pav) - 1) |->
            ((pav[k + 1] - pav[k]) * Sin100((pav[k] + pav[k + 1]) \div 2)
                * (flux[i][k] + flux[i][k + 1])) \div 100])]

(***************************************************************************)
(* calculate_omni and instrFOV (omni_quicklook_sep.py)                     *)
(***************************************************************************)
Dot(a, b) == a[1] * b[1] + a[2] * b[2] + a[3] * b[3]
NaN == -1

\* np.rad2deg(np.arccos(dot(p/|p|, v/|v|))) for vectors whose angle is a
\* multiple of 15 degrees with a rational squared cosine; NaN for a zero vector.
AngleDeg(p, v) ==
    LET d == Dot(p, v)
        n == Norm2(p) * Norm2(v)
        acute == CASE d * d = n -> 0
                   [] 4 * d * d = 3 * n -> 30
                   [] 2 * d * d = n -> 45
                   [] 4 * d * d = n -> 60
                   [] d = 0 -> 90
    IN  IF n = 0 THEN NaN
        ELSE IF d >= 0 THEN acute ELSE 180 - acute

\* instrFOV(fluxmap): the angle between the inverse of the field-of-view axis
\* (-fovaxis = position/|position|) and init_v, per cell
instrFOV(fm) ==
    [i \in 1..Len(fm.init_v) |->
        [j \in 1..Len(fm.init_v[i]) |-> AngleDeg(fm.position, fm.init_v[i][j])]]

\* lines 25-31: where final_x is inside 14.99 Re the flux becomes 0
AccessMaskAll(fm, flux) ==
    [i \in 1..Len(flux) |->
        [j \in 1..Len(flux[i]) |->
            IF HasAccess(fm.final_x[i][j]) THEN flux[i][j] ELSE 0]]
\* a calculate_omni that never applies the access mask
AccessMaskNone(fm, flux, initialE) == flux
AccessMask(fm, flux, initialE) ==
    IF ~initialE THEN AccessMaskAll(fm, flux) ELSE flux

\* lines 32-35: amask = angles < 90; diff_flux[amask] = 0.  A NaN compares
\* FALSE and is left alone.
FovMask(fm, flux, fov) ==
    IF fov
    THEN [i \in 1..Len(flux) |->
            [j \in 1..Len(flux[i]) |->
                IF instrFOV(fm)[i][j] # NaN /\ instrFOV(fm)[i][j] < 90
                THEN 0 ELSE flux[i][j]]]
    ELSE flux

\* line 23: fluxmap['final_E'] = fluxmap['init_E'] rebinds the key of the
\* caller's dictionary
OverrideFinalE(fm, initialE) ==
    IF initialE THEN [fm EXCEPT !.final_E = fm.init_E] ELSE fm

\* The whole of calculate_omni: the caller's map after the call, the grid as it
\* is at line 32 (after the access mask), the grid handed to get_omni_flux and
\* the returned omni.
calculate_omni(fm, fov, initialE) ==
    LET fm1    == OverrideFinalE(fm, initialE)
        masked == AccessMask(fm1, map_flux(fm1), initialE)
        grid   == FovMask(fm1, masked, fov)
    IN  [status |-> "returned", fov |-> fov, initialE |-> initialE,
         before |-> fm, after |-> fm1,
         masked |-> masked, diff_flux |-> grid,
         omni |-> get_omni_flux(fm1.angles, grid)]

\* Initial velocities at 45, 90 and 135 degrees to the position <<600, 0, 0>>
VKinds == {<<1, 1, 0>>, <<0, 1, 0>>, <<-1, 1, 0>>}
\* final_E - init_E of a map (keV)
DeltaE == {0, 1000}

OmniMap(s, x, v, dE) ==
    [energies |-> EnergyAxis(s[1]),
     angles   |-> AngleAxis(s[2]),
     init_E   |-> [i \in 1..s[1] |-> [j \in 1..s[2] |-> EnergyAxis(s[1])[i]]],
     final_E  |-> [i \in 1..s[1] |-> [j \in 1..s[2] |-> EnergyAxis(s[1])[i] + dE]],
     final_x  |-> x,
     init_v   |-> v,
     position |-> <<600, 0, 0>>]

(***************************************************************************)
(* Spec: calculate_omni, in each of its modes, on the caller's flux map    *)
(***************************************************************************)
Init ==
    /\ fnames = << >>
    /\ \E s \in Shapes(MaxCells) :
         \E x \in [1..s[1] -> [1..s[2] -> XKinds]] :
           \E v \in [1..s[1] -> [1..s[2] -> VKinds]] :
             \E dE \in DeltaE :
                fluxmap = OmniMap(s, x, v, dE)
    /\ call = NoCall
    /\ cdict = NoCutoffs
    /\ ret = NoRet
    /\ PostIdle

CalculateOmni(fov, initialE) ==
    /\ fluxmap # NoMap
    /\ call' = calculate_omni(fluxmap, fov, initialE)
    /\ fluxmap' = call'.after
    /\ UNCHANGED <<fnames, cdict, ret, post>>

Next == \E fov \in BOOLEAN, initialE \in BOOLEAN : CalculateOmni(fov, initialE)

Spec == Init /\ [][Next]_vars

(***************************************************************************)
(* Claims about calculate_omni                                             *)
(***************************************************************************)
Returned == call.status = "returned"
Cells(fm) == (1..Len(fm.energies)) \X (1..Len(fm.angles))

\* C3 (as stated): with fov=True a cell's flux is forced to zero exactly when
\* the angle between the inverse boresight and init_v is >= 90 degrees; a cell
\* whose angle is < 90 degrees keeps the flux it had after the access mask.
C3_FovMask ==
    (Returned /\ call.fov) =>
        \A c \in Cells(call.after) :
            IF instrFOV(call.after)[c[1]][c[2]] >= 90
            THEN call.diff_flux[c[1]][c[2]] = 0
            ELSE call.diff_flux[c[1]][c[2]] = call.masked[c[1]][c[2]]

\* C4 (as stated): in every mode (fov on or off, initialE on or off) each cell
\* whose final_x is inside 14.99 Re has flux zero in the grid handed to the
\* pitch-angle integration.
C4_AllModes ==
    Returned =>
        \A c \in Cells(call.after) :
            ~HasAccess(call.after.final_x[c[1]][c[2]])
                => call.diff_flux[c[1]][c[2]] = 0

\* C4 (amended): with initialE off (fov on or off) each cell whose final_x is
\* inside 14.99 Re has flux zero in the grid handed to the integration.
C4_AccessMasked ==
    (Returned /\ ~call.initialE) =>
        \A c \in Cells(call.after) :
            ~HasAccess(call.after.final_x[c[1]][c[2]])
                => call.diff_flux[c[1]][c[2]] = 0

\* C4 witness: a call with initialE and fov off on a map with a cell inside
\* 14.99 Re whose unmasked flux is positive.
C4_Witness ==
    /\ Returned
    /\ ~call.initialE
    /\ ~call.fov
    /\ \E c \in Cells(call.after) :
          /\ ~HasAccess(call.after.final_x[c[1]][c[2]])
          /\ map_flux(call.after)[c[1]][c[2]] > 0
          /\ call.diff_flux[c[1]][c[2]] = 0

\* C7 (as stated): after calculate_omni returns, the caller's flux map is what
\* it was before the call, for every fov and initialE.
C7_ReadOnly ==
    Returned => fluxmap = call.before

(***************************************************************************)
(* parse_map_file (ptm_tools.py).  A file is its sequence of lines: line 1 *)
(* is the header (its whitespace-separated tokens), every other line is a  *)
(* row <<idx, x, y, z, E, pitch, Efinal, vx, vy, vz>> (columns 0..9 of the *)
(* code are 1..10 here).  An array is [ndim |-> 1, vec |-> elements] or    *)
(* [ndim |-> 2, rows |-> rows].                                            *)
(***************************************************************************)
\* np.loadtxt(lines, skiprows): the lines after the skipped ones; no row gives
\* an empty 1-D array, one row a 1-D array, more rows a 2-D array.
loadtxt(lines, skiprows) ==
    LET rows == SubSeq(lines, skiprows + 1, Len(lines))
    IN  IF Len(rows) = 0 THEN [ndim |-> 1, vec |-> << >>]
        ELSE IF Len(rows) = 1 THEN [ndim |-> 1, vec |-> rows[1]]
        ELSE [ndim |-> 2, rows |-> rows]

\* lines 77-79: header = fh.readline(); res = np.loadtxt(fh, skiprows=1): the
\* header line is consumed first, and loadtxt skips one more line.
load_first(lines) == loadtxt(Tail(lines), 1)
\* line 81: np.loadtxt(fname, skiprows=1)
load_other(lines) == loadtxt(lines, 1)

atleast_2d(a) == IF a.ndim = 1 THEN <<a.vec>> ELSE a.rows
\* np.vstack((a, b)): ValueError unless the rows are equally long
vstack_ok(a, b) ==
    \A r1 \in 1..Len(atleast_2d(a)), r2 \in 1..Len(atleast_2d(b)) :
        Len(atleast_2d(a)[r1]) = Len(atleast_2d(b)[r2])
vstack(a, b) == [ndim |-> 2, rows |-> atleast_2d(a) \o atleast_2d(b)]

\* lines 77-82: res after all the files are loaded, or the ValueError of vstack
RECURSIVE stack_files(_, _, _)
stack_files(res, files, k) ==
    IF k > Len(files) THEN res
    ELSE IF res.ndim = 0 THEN res
    ELSE LET dum == load_other(files[k])
         IN  IF vstack_ok(res, dum) THEN stack_files(vstack(res, dum), files, k + 1)
             ELSE [ndim |-> 0, error |-> "ValueError"]
load_all(files) == stack_files(load_first(files[1]), files, 2)

\* res[:, c] needs two dimensions and more than c columns (IndexError otherwise)
columns_ok(res) ==
    /\ res.ndim = 2
    /\ \A r \in 1..Len(res.rows) : Len(res.rows[r]) >= 10

ZeroCell == [init_E |-> 0, final_E |-> 0, final_x |-> <<0, 0, 0>>, init_v |-> <<0, 0, 0>>]
RowCell(row) ==
    [init_E |-> row[5], final_E |-> row[7],
     final_x |-> <<row[2], row[3], row[4]>>, init_v |-> <<row[8], row[9], row[10]>>]

\* np.argwhere(value == vec): the indices of the matches
argwhere(value, vec) == {i \in 1..Len(vec) : vec[i] = value}

\* a loop body that keeps the first row written into a cell
assign_row_keep_first(grid, row, envec, pavec) ==
    [i \in 1..Len(envec) |-> [j \in 1..Len(pavec) |->
        IF i \in argwhere(row[5], envec) /\ j \in argwhere(row[6], pavec)
            /\ grid[i][j] = ZeroCell
        THEN RowCell(row) ELSE grid[i][j]]]

\* lines 98-103: one pass of the loop, the row written into its cell
assign_row(grid, row, envec, pavec) ==
    [i \in 1..Len(envec) |-> [j \in 1..Len(pavec) |->
        IF i \in argwhere(row[5], envec) /\ j \in argwhere(row[6], pavec)
        THEN RowCell(row) ELSE grid[i][j]]]

\* lines 97-103: the loop over the rows of res, in order
RECURSIVE assign_rows(_, _, _, _, _)
assign_rows(grid, rows, k, envec, pavec) ==
    IF k > Len(rows) THEN grid
    ELSE assign_rows(assign_row(grid, rows[k], envec, pavec), rows, k + 1, envec, pavec)

\* header.strip().split()[-3:]
LastThree(tokens) ==
    SubSeq(tokens, IF Len(tokens) > 3 THEN Len(tokens) - 2 ELSE 1, Len(tokens))

\* The whole of parse_map_file(fnames): the flux map, or the error raised
parse_map_file(files) ==
    LET res == load_all(files)
    IN  IF res.ndim = 0 THEN [status |-> res.error]
        ELSE IF ~columns_ok(res) THEN [status |-> "IndexError"]
        ELSE
        LET pavec == SortedSeq({res.rows[r][6] : r \in 1..Len(res.rows)})
            envec == SortedSeq({res.rows[r][5] : r \in 1..Len(res.rows)})
            zeros == [i \in 1..Len(envec) |-> [j \in 1..Len(pavec) |-> ZeroCell]]
            grid  == assign_rows(zeros, res.rows, 1, envec, pavec)
        IN  [energies |-> envec,
             angles   |-> pavec,
             init_E   |-> [i \in 1..Len(envec) |-> [j \in 1..Len(pavec) |-> grid[i][j].init_E]],
             final_E  |-> [i \in 1..Len(envec) |-> [j \in 1..Len(pavec) |-> grid[i][j].final_E]],
             final_x  |-> [i \in 1..Len(envec) |-> [j \in 1..Len(pavec) |-> grid[i][j].final_x]],
             init_v   |-> [i \in 1..Len(envec) |-> [j \in 1..Len(pavec) |-> grid[i][j].init_v]],
             position |-> LastThree(files[1][1])]

(***************************************************************************)
(* SpecParse: parse_map_file on every small list of map files              *)
(***************************************************************************)
RowEnergies == {1000, 2000}
RowPitches == {0, 30}
\* The k-th data line of the input, at grid point (e, p); its position,
\* final energy and velocity are its own.
DataRow(k, e, p) == <<k, 1500 + k, 0, 0, e, p, e + k, k, 1, 0>>
Header(f) == <<0, 600 + f, 0, 0>>

\* The files of sizes sz holding the data lines pts, in order
FilesOf(pts, sz) ==
    [f \in 1..Len(sz) |->
        <<Header(f)>> \o
        [k \in 1..sz[f] |->
            LET g == SumSeq(SubSeq(sz, 1, f - 1)) + k
            IN  DataRow(g, pts[g][1], pts[g][2])]]

FileLists(maxfiles, maxrows) ==
    UNION {
        {FilesOf(pts, sz) :
            pts \in [1..n -> RowEnergies \X RowPitches],
            sz \in {q \in UNION {[1..f -> 0..n] : f \in 1..maxfiles} : SumSeq(q) = n}}
        : n \in 0..maxrows}

InitParse ==
    /\ fnames \in FileLists(MaxFiles, MaxRows)
    /\ fluxmap = NoMap
    /\ call = NoCall
    /\ cdict = NoCutoffs
    /\ ret = NoRet
    /\ PostIdle

ParseMapFile ==
    /\ fluxmap = NoMap
    /\ fluxmap' = parse_map_file(fnames)
    /\ UNCHANGED <<fnames, call, cdict, ret, post>>

NextParse == ParseMapFile

SpecParse == InitParse /\ [][NextParse]_vars

(***************************************************************************)
(* Claims about parse_map_file                                             *)
(***************************************************************************)
ParseDone == fnames # << >> /\ fluxmap # NoMap
Parsed == ParseDone /\ "energies" \in DOMAIN fluxmap
\* The data rows of a file in the documented format: every line after line 1
DataRows(file) == Tail(file)
\* What a grid cell holds
CellAt(fm, i, j) ==
    [init_E |-> fm.init_E[i][j], final_E |-> fm.final_E[i][j],
     final_x |-> fm.final_x[i][j], init_v |-> fm.init_v[i][j]]
\* The rows cover each cell of their energy x pitch grid exactly once
CoversGridOnce(rows) ==
    /\ Len(rows) > 0
    /\ \A a, b \in 1..Len(rows) :
          (rows[a][5] = rows[b][5] /\ rows[a][6] = rows[b][6]) => a = b
    /\ {<<rows[a][5], rows[a][6]>> : a \in 1..Len(rows)}
         = {rows[a][5] : a \in 1..Len(rows)} \X {rows[a][6] : a \in 1..Len(rows)}

\* C5 (as stated): a single file, line 1 the header and every following line a
\* data row, the rows covering each grid cell once: parse_map_file returns the
\* grid axes and, for every data row, the row's cell holds the row's values.
\* Stated for files of at least three data rows, so that the rows still give
\* loadtxt a two-dimensional array whichever lines it skips.
C5_RoundTrip ==
    (/\ ParseDone
     /\ Len(fnames) = 1
     /\ CoversGridOnce(DataRows(fnames[1]))
     /\ Len(DataRows(fnames[1])) >= 3) =>
        LET rows == DataRows(fnames[1])
        IN  /\ Parsed
            /\ fluxmap.energies = SortedSeq({rows[a][5] : a \in 1..Len(rows)})
            /\ fluxmap.angles = SortedSeq({rows[a][6] : a \in 1..Len(rows)})
            /\ \A a \in 1..Len(rows) :
                 \E i \in 1..Len(fluxmap.energies), j \in 1..Len(fluxmap.angles) :
                    /\ fluxmap.energies[i] = rows[a][5]
                    /\ fluxmap.angles[j] = rows[a][6]
                    /\ CellAt(fluxmap, i, j) = RowCell(rows[a])

\* The rows parse_map_file loaded (res), and the rows written to cell (i, j)
Loaded == load_all(fnames).rows
Writers(i, j) ==
    {a \in 1..Len(Loaded) :
        Loaded[a][5] = fluxmap.energies[i] /\ Loaded[a][6] = fluxmap.angles[j]}
AxesOfLoaded ==
    /\ fluxmap.energies = SortedSeq({Loaded[a][5] : a \in 1..Len(Loaded)})
    /\ fluxmap.angles = SortedSeq({Loaded[a][6] : a \in 1..Len(Loaded)})
    /\ \A a \in 1..Len(Loaded) :
          Cardinality({c \in Cells(fluxmap) :
                          /\ fluxmap.energies[c[1]] = Loaded[a][5]
                          /\ fluxmap.angles[c[2]] = Loaded[a][6]}) = 1

\* C6 (as stated): for any loaded rows, every (energy, pitch) of a row has
\* exactly one cell, no cell receives the data of two rows, and every cell
\* was written by some row.
C6_OneToOne ==
    Parsed =>
        /\ AxesOfLoaded
        /\ \A c \in Cells(fluxmap) :
              /\ Cardinality(Writers(c[1], c[2])) = 1
              /\ \A a \in Writers(c[1], c[2]) :
                    CellAt(fluxmap, c[1], c[2]) = RowCell(Loaded[a])

\* C6 (amended): every (energy, pitch) of a loaded row has exactly one cell; a
\* cell whose (energy, pitch) occurs in several rows holds the last of them, a
\* cell whose (energy, pitch) occurs in no row stays zero; so the grid is
\* one-to-one with the rows when the rows cover each cell exactly once.
C6_Correspondence ==
    Parsed =>
        /\ AxesOfLoaded
        /\ \A c \in Cells(fluxmap) :
              CellAt(fluxmap, c[1], c[2]) =
                  IF Writers(c[1], c[2]) = {} THEN ZeroCell
                  ELSE RowCell(Loaded[Max(Writers(c[1], c[2]))])
        /\ CoversGridOnce(Loaded) =>
              \A c \in Cells(fluxmap) : Cardinality(Writers(c[1], c[2])) = 1

\* C6 witness: a parsed map with a cell written by two rows and a cell written
\* by none, from more than one file.
C6_Witness ==
    /\ Parsed
    /\ Len(fnames) > 1
    /\ \E c \in Cells(fluxmap) : Cardinality(Writers(c[1], c[2])) >= 2
    /\ \E c \in Cells(fluxmap) : Writers(c[1], c[2]) = {}

(***************************************************************************)
(* energy_to_flux and calculate_omnidirectional_flux (ptm_tools.py)        *)
(***************************************************************************)
\* kind.lower(), on the tags of the model
Lower(kind) ==
    CASE kind = "Kappa" -> "kappa"
      [] kind = "KAPPA" -> "kappa"
      [] kind = "Maxwell" -> "maxwell"
      [] OTHER -> kind
LowerNone(kind) == kind

\* The branch of lines 160-171 a tag selects
branch_case_sensitive(kind) ==
    IF LowerNone(kind) = "maxwell" THEN "maxwell"
    ELSE IF LowerNone(kind) = "kappa" THEN "kappa"
    ELSE "raise"
branch(kind) ==
    IF Lower(kind) = "maxwell" THEN "maxwell"
    ELSE IF Lower(kind) = "kappa" THEN "kappa"
    ELSE "raise"

\* The whole of energy_to_flux.  The flux j is kept as the formula that was
\* evaluated: the distribution, the factor of pi*kap in the kappa normalisation
\* (2 pi kap), the arguments, and whether it was multiplied by ef.
energy_to_flux(ei, ef, ec, n, mc2, kind, kap, energyFlux) ==
    IF branch(kind) = "raise"
    THEN [op |-> "energy_to_flux", kind |-> kind, status |-> "Exception",
          message |-> <<"Error in energy_to_flux: kind= ", kind, " is not supported">>]
    ELSE [op |-> "energy_to_flux", kind |-> kind, status |-> "returned",
          j |-> [dist |-> branch(kind), norm_pi_kap |-> 2,
                 ei |-> ei, ef |-> ef, ec |-> ec, n |-> n, mc2 |-> mc2,
                 kap |-> IF branch(kind) = "kappa" THEN kap ELSE 0,
                 times_ef |-> energyFlux]]

\* The whole of calculate_electron_flux(ei, ef, x), x = [k1, E1, n1, k2, E2, n2].
\* j is kept as the formula that was evaluated: mc2 = 511, the two kappa
\* phase-space densities f1 + f2, each normalised with pi*k (lines 197, 201:
\* the factor in front of pi*k is 1), converted with the speed at ef.
calculate_electron_flux(ei, ef, x) ==
    [op |-> "calculate_electron_flux", status |-> "returned",
     ei |-> ei, ef |-> ef, x |-> x,
     j |-> [dist |-> "kappa+kappa", norm_pi_kap |-> 1,
            ei |-> ei, ef |-> ef, mc2 |-> 511,
            f |-> <<[kap |-> x[1], ec |-> x[2], n |-> x[3]],
                    [kap |-> x[4], ec |-> x[5], n |-> x[6]]>>,
            times_ef |-> FALSE]]

Transpose(m) ==
    IF Len(m) = 0 THEN << >>
    ELSE [c \in 1..Len(m[1]) |-> [r \in 1..Len(m) |-> m[r][c]]]

\* line 249: flux = diffJ if pav.size == np.size(diffJ, 1) else diffJ.T
\* (np.size(diffJ, 1) is the length of the second axis)
orient_never(pav, diffJ) == diffJ
orient(pav, diffJ) ==
    IF Len(pav) = Len(diffJ[1]) THEN diffJ ELSE Transpose(diffJ)

\* The whole of calculate_omnidirectional_flux (angles in degrees).  omniJ is in
\* the units of get_omni_flux: the constant 2 pi (pi/180) 0.5 is left out.
calculate_omnidirectional_flux(pav, diffJ, symmetry) ==
    IF ~(Len(pav) \in {Len(diffJ), Len(diffJ[1])})
    THEN [op |-> "calculate_omnidirectional_flux", pav |-> pav, diffJ |-> diffJ,
          status |-> "Exception",
          message |-> <<"Error in calculate_omnidirectional_flux: Dimension mismatch between PAV and DIFFJ">>]
    ELSE
    LET flux == orient(pav, diffJ)
    IN  [op |-> "calculate_omnidirectional_flux", pav |-> pav, diffJ |-> diffJ,
         status |-> "returned",
         flux |-> flux,
         omniJ |-> [i \in 1..Len(flux) |->
            SumSeq([k \in 1..(Len(pav) - 1) |->
                ((IF symmetry THEN 2 ELSE 1) * (pav[k + 1] - pav[k])
                    * Sin100((pav[k] + pav[k + 1]) \div 2)
                    * (flux[i][k] + flux[i][k + 1])) \div 100])]]

(***************************************************************************)
(* SpecTools: the two ptm_tools functions on small inputs                  *)
(***************************************************************************)
KindTags == {"kappa", "Kappa", "KAPPA", "maxwell", "Maxwell", "mixture", "kaprel"}
FluxValues == 0..1

\* The pending calls: the arguments of one call of either function
FluxCalls ==
    {[status |-> "pending", op |-> "energy_to_flux",
      ei |-> ei, ef |-> ef, kind |-> kind, energyFlux |-> energyFlux] :
        ei \in {1000, 2000}, ef \in {1000, 2000}, kind \in KindTags,
        energyFlux \in BOOLEAN}
OmniCalls(maxdim) ==
    UNION {
        {[status |-> "pending", op |-> "calculate_omnidirectional_flux",
          pav |-> AngleAxis(n), diffJ |-> diffJ, symmetry |-> symmetry] :
            n \in 1..(maxdim + 1), symmetry \in BOOLEAN,
            diffJ \in [1..s[1] -> [1..s[2] -> FluxValues]]}
        : s \in (1..maxdim) \X (1..maxdim)}

Kappas == {3, 5}
CharEnergies == {752, 1000}
Densities == 0..1
MixCalls ==
    {[status |-> "pending", op |-> "calculate_electron_flux",
      ei |-> ei, ef |-> ef, x |-> <<k1, E1, n1, k2, E2, n2>>] :
        ei \in {1000, 2000}, ef \in {1000, 2000},
        k1 \in Kappas, E1 \in CharEnergies, n1 \in Densities,
        k2 \in Kappas, E2 \in CharEnergies, n2 \in Densities}

InitTools ==
    /\ fnames = << >>
    /\ fluxmap = NoMap
    /\ call = NoCall
    /\ cdict = NoCutoffs
    /\ ret \in FluxCalls \cup OmniCalls(MaxDim) \cup MixCalls
    /\ PostIdle

EnergyToFlux ==
    /\ ret.status = "pending"
    /\ ret.op = "energy_to_flux"
    /\ ret' = energy_to_flux(ret.ei, ret.ef, 752, 5, 511, ret.kind, 5, ret.energyFlux)
    /\ UNCHANGED <<fnames, fluxmap, call, cdict, post>>

OmnidirectionalFlux ==
    /\ ret.status = "pending"
    /\ ret.op = "calculate_omnidirectional_flux"
    /\ ret' = calculate_omnidirectional_flux(ret.pav, ret.diffJ, ret.symmetry)
    /\ UNCHANGED <<fnames, fluxmap, call, cdict, post>>

ElectronFlux ==
    /\ ret.status = "pending"
    /\ ret.op = "calculate_electron_flux"
    /\ ret' = calculate_electron_flux(ret.ei, ret.ef, ret.x)
    /\ UNCHANGED <<fnames, fluxmap, call, cdict, post>>

NextTools == EnergyToFlux \/ OmnidirectionalFlux \/ ElectronFlux

SpecTools == InitTools /\ [][NextTools]_vars

(***************************************************************************)
(* Claims about the ptm_tools functions                                    *)
(***************************************************************************)
IsOmniCall ==
    /\ "op" \in DOMAIN ret
    /\ ret.op = "calculate_omnidirectional_flux"
    /\ ret.status # "pending"
IsFluxCall ==
    /\ "op" \in DOMAIN ret
    /\ ret.op = "energy_to_flux"
    /\ ret.status # "pending"
Range(q) == {q[k] : k \in 1..Len(q)}
NAngles == Len(ret.pav)
FirstAxis == Len(ret.diffJ)
SecondAxis == Len(ret.diffJ[1])

\* C8 (as stated): a dimension-mismatch error when the number of angles equals
\* neither axis length; the grid transposed when the number of angles matches
\* the second axis instead of the first; the grid untransposed when it matches
\* the first axis.
C8_FirstAxis ==
    IsOmniCall =>
        /\ (NAngles # FirstAxis /\ NAngles # SecondAxis) => ret.status = "Exception"
        /\ (NAngles = SecondAxis /\ NAngles # FirstAxis) =>
              (ret.status = "returned" /\ ret.flux = Transpose(ret.diffJ))
        /\ NAngles = FirstAxis =>
              (ret.status = "returned" /\ ret.flux = ret.diffJ)

\* C8 (amended): a dimension-mismatch error when the number of angles equals
\* neither axis length; the grid untransposed when the number of angles matches
\* the second axis; the grid transposed when it matches the first axis only.
C8_SecondAxis ==
    IsOmniCall =>
        /\ (NAngles # FirstAxis /\ NAngles # SecondAxis) =>
              (/\ ret.status = "Exception"
               /\ \E part \in Range(ret.message) :
                     part = "Error in calculate_omnidirectional_flux: Dimension mismatch between PAV and DIFFJ")
        /\ NAngles = SecondAxis =>
              (ret.status = "returned" /\ ret.flux = ret.diffJ)
        /\ (NAngles = FirstAxis /\ NAngles # SecondAxis) =>
              (ret.status = "returned" /\ ret.flux = Transpose(ret.diffJ))

\* C8 witness: a grid that is not square, whose first axis alone matches the
\* angles, integrated after transposition (one result per column of diffJ).
C8_Witness ==
    /\ IsOmniCall
    /\ ret.status = "returned"
    /\ NAngles = FirstAxis
    /\ NAngles # SecondAxis
    /\ ret.flux # ret.diffJ
    /\ Len(ret.omniJ) = SecondAxis

SupportedTags == {"kappa", "maxwell", "mixture"}
\* The tags of KindTags that spell kappa or maxwell, in any letter case
KappaMaxwellTags == {"kappa", "Kappa", "KAPPA", "maxwell", "Maxwell"}
Names(message, tags) == tags \subseteq Range(message)

\* C9 (as stated): a tag outside {kappa, maxwell, mixture} fails with an error
\* whose message names the tag and the supported tags; a tag inside the set
\* (here in any letter case) never produces that error.
C9_SupportedSet ==
    IsFluxCall =>
        IF ret.kind \in KappaMaxwellTags \cup {"mixture"}
        THEN ret.status = "returned"
        ELSE /\ ret.status = "Exception"
             /\ Names(ret.message, {ret.kind})
             /\ Names(ret.message, SupportedTags)

\* C9 (amended): a tag that is neither kappa nor maxwell in any letter case
\* (mixture included) fails, returning no flux, with an error whose message
\* names the tag and names no supported tag; kappa and maxwell in any letter
\* case return a flux.
C9_Dispatch ==
    IsFluxCall =>
        IF ret.kind \in KappaMaxwellTags
        THEN ret.status = "returned" /\ "message" \notin DOMAIN ret
        ELSE /\ ret.status = "Exception"
             /\ "j" \notin DOMAIN ret
             /\ Names(ret.message, {ret.kind})
             /\ Range(ret.message) \cap (SupportedTags \ {ret.kind}) = {}

\* C9 witness: the tag mixture was requested and the call failed.
C9_Witness ==
    /\ IsFluxCall
    /\ ret.kind = "mixture"
    /\ ret.status = "Exception"

IsMixCall ==
    /\ "op" \in DOMAIN ret
    /\ ret.op = "calculate_electron_flux"
    /\ ret.status # "pending"

\* A flux formula as the density it gives to each kappa term.  A term is
\* fixed by (kap, ec) and the factor c in its normalisation (c pi kap); terms
\* with different keys are different functions of the energy, and a flux is
\* the sum over the keys of density * term.
TermKeys == [kap : Kappas, ec : CharEnergies, norm_pi_kap : {1, 2}]
TermDensity(j, key) ==
    IF j.dist = "kappa"
    THEN IF key = [kap |-> j.kap, ec |-> j.ec, norm_pi_kap |-> j.norm_pi_kap]
         THEN j.n ELSE 0
    ELSE SumSeq([c \in 1..Len(j.f) |->
            IF key = [kap |-> j.f[c].kap, ec |-> j.f[c].ec, norm_pi_kap |-> j.norm_pi_kap]
            THEN j.f[c].n ELSE 0])
\* j = a + b (a and b may be the same formula with no density: the zero flux)
SameFluxAsSum(j, a, b) ==
    /\ \A key \in TermKeys :
            TermDensity(j, key) = TermDensity(a, key) + TermDensity(b, key)
    /\ \A part \in {a, b} :
            /\ part.ei = j.ei
            /\ part.ef = j.ef
            /\ part.mc2 = j.mc2
            /\ part.times_ef = j.times_ef

\* C14: calculate_electron_flux(ei, ef, [k1, E1, n1, k2, E2, n2]) equals
\* energy_to_flux(ei, ef, E1, n1, 511, 'kappa', k1) +
\* energy_to_flux(ei, ef, E2, n2, 511, 'kappa', k2): each component has the
\* normalisation of the single kappa flux, with 2 pi kappa in its denominator.
C14_MixtureIsSum ==
    IsMixCall =>
        /\ ret.status = "returned"
        /\ SameFluxAsSum(ret.j,
              energy_to_flux(ret.ei, ret.ef, ret.x[2], ret.x[3], 511, "kappa", ret.x[1], FALSE).j,
              energy_to_flux(ret.ei, ret.ef, ret.x[5], ret.x[6], 511, "kappa", ret.x[4], FALSE).j)

(***************************************************************************)
(* SpecCutoffs: cutoffs applied to every access pattern of a small grid    *)
(***************************************************************************)
InitCutoffs ==
    /\ fnames = << >>
    /\ \E s \in Shapes(MaxCutCells) :
         \E x \in [1..s[1] -> [1..s[2] -> XKinds]] :
            fluxmap = AccessMap(s, x)
    /\ call = NoCall
    /\ cdict = NoCutoffs
    /\ ret = NoRet
    /\ PostIdle

Cutoffs ==
    /\ fluxmap # NoMap
    /\ cdict' = cutoffs(fluxmap)
    /\ UNCHANGED <<fnames, fluxmap, call, ret, post>>

NextCutoffs == Cutoffs

SpecCutoffs == InitCutoffs /\ [][NextCutoffs]_vars

(***************************************************************************)
(* Claims about cutoffs                                                    *)
(***************************************************************************)
CutDone == cdict # NoCutoffs
FA == full_access(fluxmap)
FullIdx == {n \in 1..Len(FA) : FA[n]}
\* 1-based starts of the maximal contiguous runs of full access
RunStarts == {n \in FullIdx : n = 1 \/ ~FA[n - 1]}

\* C1 (as stated): whenever some energy has access fraction > 0.82, ec_high is
\* the energy at the start of the FIRST (lowest-energy) run of full access.
C1_FirstRun ==
    (CutDone /\ FullIdx # {}) =>
        /\ cdict.status = "ok"
        /\ cdict.ec_high = en_mev(fluxmap)[Min(RunStarts)]

\* C1 (amended): whenever some energy has access fraction > 0.82, ec_high is
\* the energy at the start of the LAST (highest-energy) run of full access.
C1_LastRun ==
    (CutDone /\ FullIdx # {}) =>
        /\ cdict.status = "ok"
        /\ cdict.ec_high = en_mev(fluxmap)[Max(RunStarts)]

\* C1 witness: cutoffs has returned for a map with two separate runs.
C1_Witness ==
    /\ CutDone
    /\ cdict.status = "ok"
    /\ Cardinality(RunStarts) >= 2

\* Number of grid cells that lack access, and the cell count
NLack ==
    Cardinality({c \in (1..Len(fluxmap.energies)) \X (1..Len(fluxmap.angles)) :
                    ~HasAccess(fluxmap.final_x[c[1]][c[2]])})
NTotal == Len(fluxmap.energies) * Len(fluxmap.angles)

\* C2 (as stated): r_eff = r_low + (r_high - r_low) * N_forbidden / N_total with
\* N_forbidden the number of cells that lack access.
C2_ForbiddenWeight ==
    (CutDone /\ cdict.status = "ok") =>
        /\ cdict.r_eff.den = NTotal
        /\ cdict.r_eff.num =
             cdict.r_low * NTotal + (cdict.r_high - cdict.r_low) * NLack

\* C10: no energy has access fraction > 0.82 but some energy has access:
\* cutoffs returns, with ec_high the highest energy of the grid.
C10_Fallback ==
    (CutDone /\ FullIdx = {} /\ \E n \in 1..Len(FA) : allowCount(fluxmap)[n] # 0) =>
        /\ cdict.status = "ok"
        /\ cdict.ec_high = en_mev(fluxmap)[Len(fluxmap.energies)]

\* C10 witness: the fallback taken on a grid of several energies whose lowest
\* energy with access is not the highest energy.
C10_Witness ==
    /\ CutDone
    /\ cdict.status = "ok"
    /\ FullIdx = {}
    /\ Len(fluxmap.energies) >= 2
    /\ cdict.ec_low < cdict.ec_high

\* the access fractions do not decrease with energy
NonDecreasing ==
    \A n \in 1..(Len(fluxmap.energies) - 1) :
        allowCount(fluxmap)[n] <= allowCount(fluxmap)[n + 1]

\* C11: the access fraction is non-decreasing in energy and k is the first
\* index with fraction > 0.82: cutoffs returns ec_high = energies[k] in MeV.
C11_Monotone ==
    (CutDone /\ NonDecreasing /\ FullIdx # {}) =>
        /\ cdict.status = "ok"
        /\ cdict.ec_high = en_mev(fluxmap)[Min(FullIdx)]

\* C11 witness: a non-decreasing sequence that starts at a partial fraction
\* and steps over 0.82 at an index that is neither the first nor the last.
C11_Witness ==
    /\ CutDone
    /\ cdict.status = "ok"
    /\ NonDecreasing
    /\ FullIdx # {}
    /\ Min(FullIdx) > 1
    /\ Min(FullIdx) < Len(fluxmap.energies)
    /\ allowCount(fluxmap)[1] > 0

\* 1-based indices of the energies with a nonzero access fraction
AccessIdx == {n \in 1..Len(fluxmap.energies) : allowCount(fluxmap)[n] # 0}

\* C12: some cell has access: ec_low is the lowest grid energy whose access
\* fraction is nonzero, and every lower grid energy has access fraction zero.
C12_LowestAccess ==
    (CutDone /\ AccessIdx # {}) =>
        /\ cdict.status = "ok"
        /\ \E n \in AccessIdx :
              /\ cdict.ec_low = en_mev(fluxmap)[n]
              /\ \A m \in 1..(n - 1) : allowCount(fluxmap)[m] = 0
              /\ \A m \in 1..Len(fluxmap.energies) :
                    fluxmap.energies[m] < fluxmap.energies[n] =>
                        \A j \in 1..Len(fluxmap.angles) :
                            ~HasAccess(fluxmap.final_x[m][j])

\* C12 witness: the lowest energy has no access, the lowest energy with access
\* has it in part of its pitch bins only, a higher energy has full access.
C12_Witness ==
    /\ CutDone
    /\ cdict.status = "ok"
    /\ 1 \notin AccessIdx
    /\ Min(AccessIdx) \notin FullIdx
    /\ FullIdx # {}

\* C17: whenever cutoffs returns a result, ec_low <= ec_eff <= ec_high and
\* r_low <= r_eff <= r_high.
C17_Ordered ==
    (CutDone /\ cdict.status = "ok") =>
        /\ cdict.ec_low <= cdict.ec_eff
        /\ cdict.ec_eff <= cdict.ec_high
        /\ cdict.r_low * cdict.r_eff.den <= cdict.r_eff.num
        /\ cdict.r_eff.num <= cdict.r_high * cdict.r_eff.den

\* C17 witness: two disjoint runs of full access, and an effective cutoff
\* strictly between the two cutoffs.
C17_Witness ==
    /\ CutDone
    /\ cdict.status = "ok"
    /\ Cardinality(RunStarts) >= 2
    /\ cdict.r_low * cdict.r_eff.den < cdict.r_eff.num
    /\ cdict.r_eff.num < cdict.r_high * cdict.r_eff.den

\* C18: no cell of the flux map has access: cutoffs returns no result, it
\* ends with the IndexError of not_forbidden[0], and no cutoff is set.
C18_NoAccess ==
    (CutDone /\ AccessIdx = {}) =>
        /\ cdict.status = "IndexError"
        /\ DOMAIN cdict = {"status"}

\* C18 witness: cutoffs called on a map of several energies and pitch bins
\* none of which has access.
C18_Witness ==
    /\ CutDone
    /\ AccessIdx = {}
    /\ Len(fluxmap.energies) >= 2
    /\ Len(fluxmap.angles) >= 2

(***************************************************************************)
(* ptm_postprocessor (scripts/ptm_postprocessing.py).  An object is the    *)
(* record of its private attributes; mc2 is the value self.__mc2 reads,    *)
(* which is the class attribute 5.11e2 until the object gets its own.      *)
(* e_char is in eV and kappa in tenths, so that the defaults 0.5 keV and   *)
(* 2.5 are integers; a mass is a whole multiple of the electron mass.      *)
(***************************************************************************)
MaxSets == 3            \* set_source_parameters calls made on one object
ClassMc2 == 511
DefaultN == 1
DefaultEchar == 500
DefaultKappa == 25
DefaultMass == 1

RECURSIVE Product(_)
Product(q) == IF Len(q) = 0 THEN 1 ELSE Head(q) * Product(Tail(q))

\* __init__
new_postprocessor ==
    [status |-> "object", mc2 |-> ClassMc2, set_defaults |-> TRUE,
     ec |-> 0, n |-> 0, kappa |-> 0]

\* a set_source_parameters that assigns the rest energy from the class value
set_source_parameters_assign(self, n_dens, e_char, kappa, mass) ==
    [self EXCEPT !.mc2 = ClassMc2 * mass, !.ec = e_char, !.n = n_dens,
                 !.kappa = kappa, !.set_defaults = FALSE]

\* set_source_parameters: self.__mc2 *= mass, and the three parameters
set_source_parameters(self, n_dens, e_char, kappa, mass) ==
    [self EXCEPT !.mc2 = self.mc2 * mass, !.ec = e_char, !.n = n_dens,
                 !.kappa = kappa, !.set_defaults = FALSE]

\* calculate_flux(fluxmap): the object after the call (the defaults are set
\* on first use), the rest energy the formulas used, and the flux j per cell
\* kept as the formula that was evaluated.
calculate_flux(self, fm) ==
    LET me == IF self.set_defaults
              THEN set_source_parameters(self, DefaultN, DefaultEchar,
                                         DefaultKappa, DefaultMass)
              ELSE self
    IN  [self |-> me,
         mc2 |-> me.mc2,
         j |-> [i \in 1..Len(fm.final_E) |-> [k \in 1..Len(fm.final_E[i]) |->
                 [dist |-> "kappa", norm_pi_kap |-> 2,
                  ei |-> fm.init_E[i][k], ef |-> fm.final_E[i][k],
                  ec |-> me.ec, n |-> me.n, mc2 |-> me.mc2, kap |-> me.kappa,
                  times_ef |-> FALSE]]]]

(***************************************************************************)
(* SpecPost: two ptm_postprocessor objects, their source parameters set    *)
(* any number of times (up to MaxSets) around calls of calculate_flux      *)
(***************************************************************************)
Masses == {2, 3}
\* n_dens = 2 cm-3, e_char = 10 keV, kappa = 5
SourceN == 2
SourceEchar == 10000
SourceKappa == 50
PostMap == OmniMap(<<1, 2>>, <<<<<<1499, 0, 0>>, <<1499, 0, 0>>>>>>,
                   <<<<<<1, 0, 0>>, <<1, 0, 0>>>>>>, 0)

InitPost ==
    /\ fnames = << >>
    /\ fluxmap = PostMap
    /\ call = NoCall
    /\ cdict = NoCutoffs
    /\ ret = NoRet
    /\ PostIdle

New(i) ==
    /\ pp[i] = NoObject
    /\ pp' = [pp EXCEPT ![i] = new_postprocessor]
    /\ UNCHANGED <<fnames, fluxmap, call, cdict, ret, hist, disk, fluxdata>>

SetSourceParameters(i, mass) ==
    /\ pp[i] # NoObject
    /\ Len(hist[i].masses) < MaxSets
    /\ pp' = [pp EXCEPT ![i] =
                set_source_parameters(pp[i], SourceN, SourceEchar, SourceKappa, mass)]
    /\ hist' = [hist EXCEPT ![i].masses = Append(@, mass)]
    /\ UNCHANGED <<fnames, fluxmap, call, cdict, ret, disk, fluxdata>>

CalculateFlux(i) ==
    /\ pp[i] # NoObject
    /\ LET r == calculate_flux(pp[i], fluxmap)
       IN  /\ pp' = [pp EXCEPT ![i] = r.self]
           /\ hist' = [hist EXCEPT ![i].used =
                        [status |-> "used", mc2 |-> r.mc2,
                         masses |-> hist[i].masses, j |-> r.j]]
    /\ UNCHANGED <<fnames, fluxmap, call, cdict, ret, disk, fluxdata>>

NextPost ==
    \E i \in Instances :
        \/ New(i)
        \/ \E mass \in Masses : SetSourceParameters(i, mass)
        \/ CalculateFlux(i)

SpecPost == InitPost /\ [][NextPost]_vars

(***************************************************************************)
(* Claims about the ptm_postprocessor objects                              *)
(***************************************************************************)
Used(i) == hist[i].used.status = "used"

\* C15: after set_source_parameters calls with masses m1, ..., mn on one
\* object, in any interleaving with calculate_flux, the rest energy the next
\* calculate_flux uses is 511 keV * m1 * ... * mn; the calls on another
\* object do not count, and an object with no call uses 511 keV.
C15_Compound ==
    \A i \in Instances :
        /\ pp[i] # NoObject => pp[i].mc2 = 511 * Product(hist[i].masses)
        /\ Used(i) =>
            /\ hist[i].used.mc2 = 511 * Product(hist[i].used.masses)
            /\ \A c \in 1..Len(hist[i].used.j[1]) :
                    hist[i].used.j[1][c].mc2 = hist[i].used.mc2

\* C15 witness: one object was given several masses and its calculate_flux
\* used their product, not 511 keV times the last of them, while the other
\* object, given none, used 511 keV.
C15_Witness ==
    \E i, k \in Instances :
        /\ i # k
        /\ Used(i)
        /\ Len(hist[i].used.masses) >= 2
        /\ hist[i].used.mc2 #
              511 * hist[i].used.masses[Len(hist[i].used.masses)]
        /\ Used(k)
        /\ hist[k].masses = << >>
        /\ hist[k].used.mc2 = 511

(***************************************************************************)
(* process_run, process_ram_boundary and write_ram_fluxes.  The run        *)
(* directory holds rungrid.txt (per row: run id, time in seconds, radial   *)
(* distance, MLT) and the map files map_NNNN.dat of the runs.  Fluxes are  *)
(* kept as the formulas that were evaluated.                               *)
(***************************************************************************)
MaxRuns == 2            \* rows of rungrid.txt

\* calculate_omnidirectional_flux(pav, flux) of the object: per energy, the
\* terms coef * savg * favg of the sum, coef = 4 pi dQ and savg the sine of
\* the bin midpoint
omni_of(pav, flux) ==
    [i \in 1..Len(flux) |->
        [k \in 1..(Len(pav) - 1) |->
            [dQ |-> pav[k + 1] - pav[k], mid2 |-> pav[k] + pav[k + 1],
             favg2 |-> <<flux[i][k], flux[i][k + 1]>>]]]

\* The file map_NNNN.dat of run r: a header and the four lines of a 2 x 2 grid
MapFile(r) ==
    <<Header(r), DataRow(10 * r + 1, 1000, 0), DataRow(10 * r + 2, 1000, 30),
      DataRow(10 * r + 3, 2000, 0), DataRow(10 * r + 4, 2000, 30)>>

\* process_run(runid): the object after the call, the returned results and
\* the locals the routine computed (fluxmap axes, flux, omni).
process_run(self, runid, d) ==
    IF runid \notin d.maps
    THEN [status |-> "Exception", self |-> self,
          message |-> <<"Error in process_run: ", runid, " not found.">>]
    ELSE
    \* fm = parse_map_file(fname); cf = calculate_flux(fluxmap), each once
    CHOOSE out \in
      {[status |-> "returned", self |-> cf.self, mc2 |-> cf.mc2,
        results |-> [position |-> fm.final_x,
                     kappa |-> cf.self.kappa,
                     n_dens |-> cf.self.n,
                     e_char |-> cf.self.ec],
        locals |-> [energies |-> fm.energies, angles |-> fm.angles,
                    flux |-> cf.j, omni |-> omni_of(fm.angles, cf.j)]] :
            fm \in {parse_map_file(<<MapFile(runid)>>)},
            cf \in {calculate_flux(self, parse_map_file(<<MapFile(runid)>>))}} : TRUE

\* for runid in runids: fluxdata[runid] = self.process_run(runid)
RECURSIVE process_runs(_, _, _, _, _)
process_runs(self, runids, k, d, acc) ==
    IF k > Len(runids) THEN [status |-> "returned", self |-> self, runs |-> acc]
    ELSE CHOOSE out \in
           {IF r.status # "returned"
            THEN [status |-> r.status, self |-> r.self, message |-> r.message]
            ELSE process_runs(r.self, runids, k + 1, d,
                    [x \in DOMAIN acc \cup {runids[k]} |->
                        IF x = runids[k] THEN r.results ELSE acc[x]]) :
                r \in {process_run(self, runids[k], d)}} : TRUE

\* write_ram_fluxes(fluxdata): the outcome and the boundary file.  The file
\* is opened once the header values are known; a failure inside the loop
\* leaves the lines written so far.
write_ram_fluxes(fd) ==
    IF Len(fd.times) < 2 THEN [status |-> "IndexError", out |-> NoDisk]
    ELSE IF 1 \notin DOMAIN fd.runs \/ "energies" \notin DOMAIN fd.runs[1]
    THEN [status |-> "KeyError", out |-> NoDisk]
    ELSE
    LET cadence == (fd.times[2] - fd.times[1]) \div 60
        nmlt    == Len(fd.mlt)
        steps   == Len(fd.times) * nmlt
        \* the step i of the loop: time-major, MLT ascending
        timeOf(i) == fd.times[((i - 1) \div nmlt) + 1]
        mltOf(i)  == fd.mlt[((i - 1) % nmlt) + 1]
        okStep(i) == i \in DOMAIN fd.runs /\ "omni" \in DOMAIN fd.runs[i]
        bad       == {i \in 1..steps : ~okStep(i)}
        last      == IF bad = {} THEN steps ELSE Min(bad) - 1
    IN  [status |-> IF bad = {} THEN "returned" ELSE "KeyError",
         out |-> [status |-> IF bad = {} THEN "written" ELSE "partial",
                  cadence |-> cadence,
                  energies |-> fd.runs[1].energies,
                  lines |-> [i \in 1..last |->
                                [time |-> timeOf(i), mlt |-> mltOf(i),
                                 saflux |-> fd.runs[i].omni]]]]

\* process_ram_boundary(write_files): the object after the call, the
\* returned fluxdata (or the error) and the boundary file
process_ram_boundary(self, d, write_files) ==
    IF ~d.has_rungrid
    THEN [status |-> "Exception", self |-> self, out |-> NoDisk]
    ELSE IF Len(d.rungrid) < 2
    THEN [status |-> "IndexError", self |-> self, out |-> NoDisk]
    ELSE
    LET rungrid == d.rungrid
        runids  == [k \in 1..Len(rungrid) |-> rungrid[k].runid]
        times   == SortedSeq({rungrid[k].time : k \in 1..Len(rungrid)})
        rvals   == SortedSeq({rungrid[k].R : k \in 1..Len(rungrid)})
        mlt     == SortedSeq({rungrid[k].mlt : k \in 1..Len(rungrid)})
    IN  IF Len(rvals) > 1
        THEN [status |-> "Exception", self |-> self, out |-> NoDisk]
        ELSE
        CHOOSE out \in
          {IF pr.status # "returned"
           THEN [status |-> pr.status, self |-> pr.self, out |-> NoDisk]
           ELSE
           LET fd == [rungrid |-> rungrid, runid |-> runids, times |-> times,
                      R |-> rvals[1], mlt |-> mlt, runs |-> pr.runs]
               wr == IF write_files THEN write_ram_fluxes(fd)
                     ELSE [status |-> "returned", out |-> NoDisk]
           IN  IF wr.status # "returned"
               THEN [status |-> wr.status, self |-> pr.self, out |-> wr.out]
               ELSE [status |-> "returned", self |-> pr.self, out |-> wr.out,
                     fluxdata |-> fd] :
                pr \in {process_runs(self, runids, 1, d, << >>)}} : TRUE

(***************************************************************************)
(* SpecRam: one ptm_postprocessor on every small run directory             *)
(***************************************************************************)
GridTimes == {0, 3600}
GridMlts == {0, 6}
GridR == 650
Perms(n) == {q \in [1..n -> 1..n] : \A a, b \in 1..n : a # b => q[a] # q[b]}

\* The run directories: rungrid.txt with n rows, the run ids a permutation
\* of base+1 .. base+n, any time and MLT per row, the radial distance fixed
\* or (farBack) not; every map file, or all but one.
Dirs(maxruns) ==
    {[status |-> "dir", has_rungrid |-> FALSE, rungrid |-> << >>,
      maps |-> {1}, out |-> NoDisk]}
    \cup UNION {
        {[status |-> "dir", has_rungrid |-> TRUE,
          rungrid |-> [k \in 1..n |->
                        [runid |-> base + q[k], time |-> tm[k][1],
                         R |-> IF farBack /\ k = n THEN GridR + 50 ELSE GridR,
                         mlt |-> tm[k][2]]],
          maps |-> {base + k : k \in 1..n} \ {base + missing},
          out |-> NoDisk] :
            q \in Perms(n), base \in {0, 1}, missing \in 0..n,
            tm \in [1..n -> GridTimes \X GridMlts], farBack \in BOOLEAN}
        : n \in 1..maxruns}

InitRam ==
    /\ fnames = << >>
    /\ fluxmap = NoMap
    /\ call = NoCall
    /\ cdict = NoCutoffs
    /\ ret = NoRet
    /\ pp = [i \in Instances |-> NoObject]
    /\ hist = [i \in Instances |-> NoHist]
    /\ disk \in Dirs(MaxRuns)
    /\ fluxdata = NoFluxdata

\* what calculate_flux used, as hist keeps it
UsedBy(i, mc2) ==
    [hist EXCEPT ![i].used = [status |-> "used", mc2 |-> mc2,
                              masses |-> hist[i].masses, j |-> << >>]]

ProcessRun(i, runid) ==
    /\ pp[i] # NoObject
    /\ ret = NoRet
    /\ fluxdata = NoFluxdata
    /\ \E r \in {process_run(pp[i], runid, disk)} :
           /\ pp' = [pp EXCEPT ![i] = r.self]
           /\ ret' = IF r.status = "returned"
                     THEN [op |-> "process_run", status |-> "returned",
                           runid |-> runid, results |-> r.results]
                     ELSE [op |-> "process_run", status |-> r.status,
                           runid |-> runid, message |-> r.message]
           /\ hist' = IF r.status = "returned" THEN UsedBy(i, r.mc2) ELSE hist
    /\ UNCHANGED <<fnames, fluxmap, call, cdict, disk, fluxdata>>

ProcessRamBoundary(i, write_files) ==
    /\ pp[i] # NoObject
    /\ ret = NoRet
    /\ fluxdata = NoFluxdata
    /\ \E r \in {process_ram_boundary(pp[i], disk, write_files)} :
           /\ pp' = [pp EXCEPT ![i] = r.self]
           /\ disk' = [disk EXCEPT !.out = r.out]
           /\ fluxdata' =
                IF r.status = "returned"
                THEN [status |-> "returned", write_files |-> write_files,
                      caller_write |-> "none", fluxdata |-> r.fluxdata]
                ELSE [status |-> r.status, write_files |-> write_files,
                      caller_write |-> "none"]
           /\ hist' = IF r.self # pp[i] THEN UsedBy(i, r.self.mc2) ELSE hist
    /\ UNCHANGED <<fnames, fluxmap, call, cdict, ret>>

\* The results of a run with the keys the docstring of process_run lists
documented_results(self, runid, d) ==
    CHOOSE out \in
      {[position |-> r.results.position, kappa |-> r.results.kappa,
        n_dens |-> r.results.n_dens, e_char |-> r.results.e_char,
        energies |-> r.locals.energies, angles |-> r.locals.angles,
        flux |-> r.locals.flux, omni |-> r.locals.omni] :
            r \in {process_run(self, runid, d)}} : TRUE

\* write_ram_fluxes called by the holder of a fluxdata that
\* process_ram_boundary(write_files=False) returned and whose run results
\* carry the documented keys
WriteRamFluxes(i) ==
    /\ pp[i] # NoObject
    /\ fluxdata.status = "returned"
    /\ ~fluxdata.write_files
    /\ fluxdata.caller_write = "none"
    /\ \E fd \in {[fluxdata.fluxdata EXCEPT !.runs =
                    [r \in DOMAIN fluxdata.fluxdata.runs |->
                        documented_results(pp[i], r, disk)]]} :
         \E wr \in {write_ram_fluxes(fd)} :
           /\ disk' = [disk EXCEPT !.out = wr.out]
           /\ fluxdata' = [fluxdata EXCEPT !.caller_write = wr.status]
    /\ UNCHANGED <<fnames, fluxmap, call, cdict, ret, pp, hist>>

NextRam ==
    \/ New("a")
    \/ \E runid \in 1..(MaxRuns + 1) : ProcessRun("a", runid)
    \/ \E write_files \in BOOLEAN : ProcessRamBoundary("a", write_files)
    \/ WriteRamFluxes("a")

SpecRam == InitRam /\ [][NextRam]_vars

(***************************************************************************)
(* Claims about process_run and the boundary file                          *)
(***************************************************************************)
RunDone == "op" \in DOMAIN ret /\ ret.op = "process_run"
RamDone == fluxdata # NoFluxdata
DocumentedKeys == {"energies", "angles", "flux", "omni", "kappa", "n_dens", "e_char"}
Rungrid == disk.rungrid
RowsOf == {Rungrid[k] : k \in 1..Len(Rungrid)}

\* C13: for a run id whose map file exists, process_run returns results with
\* the keys energies, angles, flux and omni besides kappa, n_dens and e_char,
\* and write_ram_fluxes, called by process_ram_boundary on the results of
\* the runs 1..N of a time-major rungrid, does not fail on a missing key.
C13_DocumentedKeys ==
    /\ (RunDone /\ ret.runid \in disk.maps) =>
          /\ ret.status = "returned"
          /\ DocumentedKeys \subseteq DOMAIN ret.results
    /\ (RamDone /\ fluxdata.write_files) => fluxdata.status # "KeyError"

\* C16: in the boundary file written by write_ram_fluxes, the record of
\* (time t, MLT m) carries the omnidirectional flux of a run that rungrid.txt
\* assigns to that time and MLT.
C16_RecordOfRun ==
    (RamDone /\ disk.out # NoDisk /\ disk.out.status = "written") =>
        \A k \in 1..Len(disk.out.lines) :
            \E row \in RowsOf :
                /\ row.time = disk.out.lines[k].time
                /\ row.mlt = disk.out.lines[k].mlt
                /\ disk.out.lines[k].saflux =
                     documented_results(pp["a"], row.runid, disk).omni

====
